---- MODULE Spec2Model ----
(***************************************************************************)
(* A model of src/src/exact_extract.cpp: the two exported entry points     *)
(* CPP_stats (zonal statistics matrix) and CPP_exact_extract (per-cell     *)
(* extraction table).  Coordinates are integers; a coverage fraction is a  *)
(* number of CovDen-ths of a cell; the collaborators of the file (Grid,    *)
(* subdivide, raster_cell_intersection, RasterStats, the raster sources)   *)
(* are modelled at their interface.                                        *)
(***************************************************************************)
EXTENDS Integers, Sequences, FiniteSets, TLC

VARIABLES
  call,             \* CPP_stats: the arguments of the call
  pc,               \* CPP_stats: position in the function body
  err,              \* CPP_stats: the error raised by Rcpp::stop, or "none"
  nweights,         \* CPP_stats: int nweights
  weighted,         \* CPP_stats: bool weighted
  geom_parsed,      \* CPP_stats: read_wkb has returned
  grid,             \* CPP_stats: auto grid (value grid or common grid)
  store_values,     \* CPP_stats: bool store_values
  stat_result_size, \* CPP_stats: int stat_result_size
  raster_stats,     \* CPP_stats: std::vector<RasterStats<double>>
  stat_results,     \* CPP_stats: Rcpp::NumericMatrix stat_results
  writes,           \* history: number of assignments to each cell of stat_results
  oob,              \* history: a column index reached the allocated width
  windows,          \* CPP_stats: the subgrids not yet visited by the range-for
  log,              \* history: one record per subgrid visited
  j,                \* CPP_stats: row index of the result loop
  xcall,            \* CPP_exact_extract: the arguments of the call
  xpc,              \* CPP_exact_extract: position in the function body
  xi,               \* CPP_exact_extract: loop index i
  cols              \* CPP_exact_extract: Rcpp::List cols, as <<name, content>> pairs

svars == <<call, pc, err, nweights, weighted, geom_parsed, grid, store_values,
           stat_result_size, raster_stats, stat_results, writes, oob, windows, log, j>>
xvars == <<xcall, xpc, xi, cols>>
vars == <<call, pc, err, nweights, weighted, geom_parsed, grid, store_values,
          stat_result_size, raster_stats, stat_results, writes, oob, windows, log, j,
          xcall, xpc, xi, cols>>

(***************************************************************************)
(* Bounds of the model.                                                    *)
(***************************************************************************)
MaxStats == 2       \* longest statistic list
MaxQuantiles == 2   \* longest quantile list
MaxLayers == 3      \* most layers of a raster
MaxCells == 4       \* largest max_cells_in_memory
CoarseCols == 2     \* raster width, in cells of size 2
CoarseRows == 1     \* raster height, in cells of size 2
ValMod == 3         \* raster cell values are 1..ValMod
MaxInclude == 1     \* most pass-through columns
MaxSrcNames == 2    \* most layers of a raster in CPP_exact_extract

Res == {1, 2}       \* cell sizes
CovDen == 2 * 2     \* a coverage fraction c is c / CovDen
RasterW == 2 * CoarseCols
RasterH == 2 * CoarseRows

Min(a, b) == IF a < b THEN a ELSE b
Max(a, b) == IF a > b THEN a ELSE b
CeilDiv(a, b) == (a + b - 1) \div b

(***************************************************************************)
(* Box and Grid<bounded_extent>.                                           *)
(***************************************************************************)
Box(x0, x1, y0, y1) == [x0 |-> x0, x1 |-> x1, y0 |-> y0, y1 |-> y1]

MakeGrid(x0, x1, y0, y1, dx, dy) ==
  [xmin |-> x0, xmax |-> x1, ymin |-> y0, ymax |-> y1, dx |-> dx, dy |-> dy]

NCols(g) == (g.xmax - g.xmin) \div g.dx
NRows(g) == (g.ymax - g.ymin) \div g.dy
GridSize(g) == NCols(g) * NRows(g)
GridEmpty(g) == GridSize(g) = 0
GridExtent(g) == Box(g.xmin, g.xmax, g.ymin, g.ymax)
MakeEmpty(g) == MakeGrid(g.xmin, g.xmin, g.ymin, g.ymin, g.dx, g.dy)

\* Box::intersects: closed boxes that share at least a point
BoxIntersects(a, b) ==
  ~(a.x0 > b.x1 \/ a.x1 < b.x0 \/ a.y0 > b.y1 \/ a.y1 < b.y0)

BoxIntersection(a, b) ==
  Box(Max(a.x0, b.x0), Min(a.x1, b.x1), Max(a.y0, b.y0), Min(a.y1, b.y1))

BoxHull(a, b) ==
  Box(Min(a.x0, b.x0), Max(a.x1, b.x1), Min(a.y0, b.y0), Max(a.y1, b.y1))

\* a box without area: a segment or a point
BoxFlat(b) == b.x1 <= b.x0 \/ b.y1 <= b.y0

\* Grid::shrink_to_fit: the cells of the non-empty grid g that the box b (inside
\* g's extent) overlaps.  A box without area lies on the edge of the cells it
\* touches; `closed` tells whether the grid keeps one of them (never fewer
\* than one cell) or is left without cells.
ShrinkToFit(g, b, closed) ==
  LET c0 == Min((b.x0 - g.xmin) \div g.dx, NCols(g) - 1)
      c1 == Max(CeilDiv(b.x1 - g.xmin, g.dx), c0 + 1)
      r0 == Min((b.y0 - g.ymin) \div g.dy, NRows(g) - 1)
      r1 == Max(CeilDiv(b.y1 - g.ymin, g.dy), r0 + 1)
  IN  IF BoxFlat(b) /\ ~closed THEN MakeEmpty(g)
      ELSE MakeGrid(g.xmin + c0 * g.dx, g.xmin + c1 * g.dx,
                    g.ymin + r0 * g.dy, g.ymin + r1 * g.dy, g.dx, g.dy)

\* Grid::crop
Crop(g, b, closed) ==
  IF GridEmpty(g) \/ ~BoxIntersects(b, GridExtent(g)) THEN MakeEmpty(g)
  ELSE ShrinkToFit(g, BoxIntersection(b, GridExtent(g)), closed)

\* Grid::common_grid: the finer cell size over the intersection of the extents
CommonGrid(a, b) ==
  MakeGrid(Max(a.xmin, b.xmin), Min(a.xmax, b.xmax),
           Max(a.ymin, b.ymin), Min(a.ymax, b.ymax),
           Min(a.dx, b.dx), Min(a.dy, b.dy))

\* the box of cell (c, r) of g; row 0 is the top row
CellBox(g, c, r) ==
  Box(g.xmin + c * g.dx, g.xmin + (c + 1) * g.dx,
      g.ymax - (r + 1) * g.dy, g.ymax - r * g.dy)

(***************************************************************************)
(* subdivide: row-major tiles of at most max_size cells.                   *)
(***************************************************************************)
Subdivide(g, max_size) ==
  IF GridEmpty(g) THEN <<>>
  ELSE IF GridSize(g) <= max_size THEN <<g>>
  ELSE
    LET cols_per_block == Min(max_size, NCols(g))
        rows_per_block == max_size \div cols_per_block
        col_blocks == (NCols(g) - 1) \div cols_per_block + 1
        row_blocks == (NRows(g) - 1) \div rows_per_block + 1
        Tile(i, k) ==
          MakeGrid(g.xmin + k * cols_per_block * g.dx,
                   Min(g.xmax, g.xmin + (k + 1) * cols_per_block * g.dx),
                   Max(g.ymin, g.ymax - (i + 1) * rows_per_block * g.dy),
                   g.ymax - i * rows_per_block * g.dy,
                   g.dx, g.dy)
    IN  [n \in 1..(row_blocks * col_blocks) |->
           Tile((n - 1) \div col_blocks, (n - 1) % col_blocks)]

(***************************************************************************)
(* The geometry: a multipolygon of disjoint axis-aligned rectangles.       *)
(***************************************************************************)
\* geos_get_box: the bounding box of all components
GeomBox(geom) ==
  IF Len(geom) = 1 THEN geom[1] ELSE BoxHull(geom[1], geom[2])

OverlapArea(a, b) ==
  Max(0, Min(a.x1, b.x1) - Max(a.x0, b.x0)) * Max(0, Min(a.y1, b.y1) - Max(a.y0, b.y0))

\* the covered area of cell box b
CoveredArea(geom, b) ==
  IF Len(geom) = 1 THEN OverlapArea(geom[1], b)
  ELSE OverlapArea(geom[1], b) + OverlapArea(geom[2], b)

\* the coverage fraction of cell (c, r) of g, in CovDen-ths
CoverageFraction(geom, g, c, r) ==
  (CoveredArea(geom, CellBox(g, c, r)) * CovDen) \div (g.dx * g.dy)

\* raster_cell_intersection(...).grid(): the subgrid shrunk to the components
\* of the geometry that reach it; empty when none does.  Where the components
\* only touch the subgrid, the grid is one of zero-coverage cells or empty, as
\* `closed` tells.
CoverageGrid(subgrid, geom, closed) ==
  LET hit == {k \in 1..Len(geom) :
                ~GridEmpty(subgrid) /\ BoxIntersects(geom[k], GridExtent(subgrid))}
      piece(k) == BoxIntersection(geom[k], GridExtent(subgrid))
      region == IF Cardinality(hit) = 1 THEN piece(CHOOSE k \in hit : TRUE)
                ELSE BoxHull(piece(1), piece(2))
  IN  IF hit = {} THEN MakeEmpty(subgrid) ELSE ShrinkToFit(subgrid, region, closed)

(***************************************************************************)
(* The raster sources.                                                     *)
(***************************************************************************)
\* the value of native cell (col, row) of a layer
RasterValue(seed, layer, col, row) == ((seed + layer + col + 2 * row) % ValMod) + 1

ValueGrid(c) == MakeGrid(0, RasterW, 0, RasterH, c.vres[1], c.vres[2])
WeightGrid(c) == MakeGrid(0, RasterW, 0, RasterH, c.wres[1], c.wres[2])

\* read_box + RasterView: the value of the native cell of `native` that holds
\* cell (c, r) of grid g
ReadCell(seed, layer, native, g, c, r) ==
  LET b == CellBox(g, c, r)
  IN  RasterValue(seed, layer, (b.x0 - native.xmin) \div native.dx,
                  (native.ymax - b.y1) \div native.dy)

(***************************************************************************)
(* RasterStats<double>: the running state of one output row.               *)
(***************************************************************************)
Vals == 1..ValMod

\* RasterStats(store_values)
NewStats(store) ==
  [store_values |-> store, count |-> 0, sum |-> 0, sum_sq |-> 0, sum_w |-> 0,
   weighted_sum |-> 0, min |-> {}, max |-> {}, freq |-> [v \in Vals |-> 0]]

\* one covered cell: coverage c (in CovDen-ths), value v, weight w
ProcessValue(rs, c, v, w) ==
  IF c = 0 THEN rs
  ELSE [rs EXCEPT
          !.count = @ + c,
          !.sum = @ + v * c,
          !.sum_sq = @ + v * v * c,
          !.sum_w = @ + c * w,
          !.weighted_sum = @ + v * c * w,
          !.min = IF @ = {} THEN {v} ELSE {Min(v, CHOOSE m \in @ : TRUE)},
          !.max = IF @ = {} THEN {v} ELSE {Max(v, CHOOSE m \in @ : TRUE)},
          !.freq = IF rs.store_values THEN [@ EXCEPT ![v] = @ + c] ELSE @]

\* RasterStats::process over the cells n..GridSize(cg) of the coverage grid cg;
\* wl < 0 is the two-argument (unweighted) overload, which weighs every cell 1
RECURSIVE ProcessCells(_, _, _, _, _, _)
ProcessCells(rs, c, cg, vl, wl, n) ==
  IF n > GridSize(cg) THEN rs
  ELSE
    LET col == (n - 1) % NCols(cg)
        row == (n - 1) \div NCols(cg)
        cov == CoverageFraction(c.geom, cg, col, row)
        v == ReadCell(c.vseed, vl, ValueGrid(c), cg, col, row)
        w == IF wl < 0 THEN 1 ELSE ReadCell(c.wseed, wl, WeightGrid(c), cg, col, row)
    IN  ProcessCells(ProcessValue(rs, cov, v, w), c, cg, vl, wl, n + 1)

Process(rs, c, cg, vl, wl) == ProcessCells(rs, c, cg, vl, wl, 1)

(***************************************************************************)
(* The statistic getters.  A matrix cell is NA_REAL, or a double named by   *)
(* the getter that produced it and the accumulator fields it is computed   *)
(* from: sum is the field itself, mean the quotient sum / count, and so    *)
(* on.  A getter that returns a plain double computes it whatever the      *)
(* count is, so on an accumulator without cells a sum is 0 and a quotient  *)
(* is 0 / 0, which is NaN and not NA_REAL.                                 *)
(***************************************************************************)
NA_REAL == [na |-> TRUE, fn |-> "NA", args |-> <<>>]
Uninit == [na |-> FALSE, fn |-> "uninit", args |-> <<>>]
Num(fn, args) == [na |-> FALSE, fn |-> fn, args |-> args]

Distinct(rs) == {v \in Vals : rs.freq[v] > 0}
ModeOf(rs) ==
  CHOOSE v \in Distinct(rs) :
    \A u \in Distinct(rs) : rs.freq[u] < rs.freq[v] \/ (rs.freq[u] = rs.freq[v] /\ v <= u)
MinorityOf(rs) ==
  CHOOSE v \in Distinct(rs) :
    \A u \in Distinct(rs) : rs.freq[u] > rs.freq[v] \/ (rs.freq[u] = rs.freq[v] /\ v <= u)

StatCount(rs) == Num("count", <<rs.count>>)
StatVariety(rs) == Num("variety", <<Cardinality(Distinct(rs))>>)
StatSum(rs) == Num("sum", <<rs.sum>>)
StatMean(rs) == Num("mean", <<rs.sum, rs.count>>)
StatWeightedSum(rs) == Num("weighted_sum", <<rs.weighted_sum>>)
StatWeightedMean(rs) == Num("weighted_mean", <<rs.weighted_sum, rs.sum_w>>)
StatVariance(rs) == Num("variance", <<rs.sum_sq, rs.sum, rs.count>>)
StatStdev(rs) == Num("stdev", <<rs.sum_sq, rs.sum, rs.count>>)
StatCV(rs) == Num("coefficient_of_variation", <<rs.sum_sq, rs.sum, rs.count>>)
\* the getters that return an optional: {} is the empty optional
OptMin(rs) == {Num("min", <<v>>) : v \in rs.min}
OptMax(rs) == {Num("max", <<v>>) : v \in rs.max}
OptMode(rs) == IF Distinct(rs) = {} THEN {} ELSE {Num("mode", <<ModeOf(rs)>>)}
OptMinority(rs) == IF Distinct(rs) = {} THEN {} ELSE {Num("minority", <<MinorityOf(rs)>>)}
OptQuantile(rs, q) == IF Distinct(rs) = {} THEN {} ELSE {Num("quantile", <<q>> \o rs.freq)}

\* requires_stored_values
RequiresStoredValues(stat) ==
  stat \in {"mode", "majority", "minority", "variety", "median", "quantile"}

(***************************************************************************)
(* CPP_stats: the decisions of the function body.                          *)
(***************************************************************************)
\* line 196
InvalidMaxCells(max_cells) == max_cells < 1

\* a variant of line 211 that rejects any two different counts
LayersDiffer(nl, nw) == nl # nw

\* line 211
LayersIncompatible(nl, nw) == nl > 1 /\ nw > 1 /\ nl # nw

\* line 222
ReconciledGrid(c, w) == IF w THEN CommonGrid(ValueGrid(c), WeightGrid(c)) ELSE ValueGrid(c)

\* a variant of line 224 that compares dx only
DisaggregatedInX(g, vg) == g.dx < vg.dx

\* line 224
Disaggregated(g, vg) == g.dx < vg.dx \/ g.dy < vg.dy

\* lines 239-242
NumQuantiles(quantiles) == IF quantiles.null THEN 0 ELSE Len(quantiles.vec)

\* lines 231-234
RejectsDisaggregated(dis, stat) == dis /\ (stat = "count" \/ stat = "sum")

\* a variant of lines 236-251 that counts one column for every statistic
StatWidthOne(stat, quantiles) == 1

\* lines 236-251: the columns one statistic adds to stat_result_size
StatWidth(stat, quantiles) == IF stat = "quantile" THEN NumQuantiles(quantiles) ELSE 1

\* lines 226-252: the validation loop from the k-th statistic on
RECURSIVE ValidateStats(_, _, _, _, _, _)
ValidateStats(stats, quantiles, dis, k, store, size) ==
  IF k > Len(stats) THEN [err |-> "none", store_values |-> store, size |-> size]
  ELSE IF RejectsDisaggregated(dis, stats[k])
    THEN [err |-> "disaggregated", store_values |-> store, size |-> size]
  ELSE IF stats[k] = "quantile" /\ NumQuantiles(quantiles) = 0
    THEN [err |-> "quantiles_not_specified", store_values |-> store, size |-> size]
  ELSE ValidateStats(stats, quantiles, dis, k + 1,
                     store \/ RequiresStoredValues(stats[k]),
                     size + StatWidth(stats[k], quantiles))

\* line 254
NResults(nl, nw) == Max(nl, nw)

\* lines 264-267: the subgrids the range-for visits
WindowsOf(g, geom, max_cells, closed) ==
  IF BoxIntersects(GeomBox(geom), GridExtent(g))
  THEN Subdivide(Crop(g, GeomBox(geom), closed), max_cells)
  ELSE <<>>

\* line 271
ShouldProcess(cov_grid) == ~GridEmpty(cov_grid)

\* a variant of lines 272-303 whose loops all stop at nlayers
RowsFedToNLayers(w, nl, nw) == 0..(nl - 1)

\* lines 272-303: the rows (0-based) whose accumulator the loops of a window reach
RowsFed(w, nl, nw) ==
  IF w THEN (IF nl > nw THEN 0..(nl - 1)
             ELSE IF nw > nl THEN 0..(nw - 1)
             ELSE 0..(nl - 1))
  ELSE 0..(nl - 1)

\* lines 272-303: the value layer read for row i
ValueLayerFor(i, w, nl, nw) == IF w /\ nw > nl THEN 0 ELSE i

\* a variant of lines 272-303 that never recycles the weights
WeightLayerNotRecycled(i, w, nl, nw) == IF ~w THEN -1 ELSE i

\* lines 272-303: the weight layer read for row i; -1 is the unweighted overload
WeightLayerFor(i, w, nl, nw) == IF ~w THEN -1 ELSE IF nl > nw THEN 0 ELSE i

\* a variant of lines 279-301 that processes into a new accumulator
ProcessRowFresh(rs, i, c, cov_grid, w, nw) ==
  Process(NewStats(rs.store_values), c, cov_grid, ValueLayerFor(i, w, c.nlayers, nw),
          WeightLayerFor(i, w, c.nlayers, nw))

\* lines 279, 287, 295, 301: raster_stats[i].process(...)
ProcessRow(rs, i, c, cov_grid, w, nw) ==
  Process(rs, c, cov_grid, ValueLayerFor(i, w, c.nlayers, nw),
          WeightLayerFor(i, w, c.nlayers, nw))

\* a variant of .value_or(NA_REAL) that falls back to 0
ValueOrZero(opt, default) ==
  IF opt = {} THEN Num("zero", <<0>>) ELSE CHOOSE v \in opt : TRUE

\* .value_or(NA_REAL)
ValueOr(opt, default) == IF opt = {} THEN default ELSE CHOOSE v \in opt : TRUE

Catalogue ==
  {"mean", "sum", "count", "min", "max", "median", "mode", "majority", "minority",
   "variety", "weighted_mean", "weighted_sum", "variance", "stdev",
   "coefficient_of_variation", "quantile"}

\* lines 313-342: the else-if chain ends in Rcpp::stop("Unknown stat: ...")
KnownStat(stat) == stat \in Catalogue

\* lines 313-340: the values one statistic writes, left to right
StatCells(rs, stat, quantiles) ==
  CASE stat = "mean" -> <<StatMean(rs)>>
    [] stat = "sum" -> <<StatSum(rs)>>
    [] stat = "count" -> <<StatCount(rs)>>
    [] stat = "min" -> <<ValueOr(OptMin(rs), NA_REAL)>>
    [] stat = "max" -> <<ValueOr(OptMax(rs), NA_REAL)>>
    [] stat = "median" -> <<ValueOr(OptQuantile(rs, 50), NA_REAL)>>
    [] stat = "mode" -> <<ValueOr(OptMode(rs), NA_REAL)>>
    [] stat = "majority" -> <<ValueOr(OptMode(rs), NA_REAL)>>
    [] stat = "minority" -> <<ValueOr(OptMinority(rs), NA_REAL)>>
    [] stat = "variety" -> <<StatVariety(rs)>>
    [] stat = "weighted_mean" -> <<StatWeightedMean(rs)>>
    [] stat = "weighted_sum" -> <<StatWeightedSum(rs)>>
    [] stat = "variance" -> <<StatVariance(rs)>>
    [] stat = "stdev" -> <<StatStdev(rs)>>
    [] stat = "coefficient_of_variation" -> <<StatCV(rs)>>
    [] stat = "quantile" ->
         [n \in 1..NumQuantiles(quantiles) |->
            ValueOr(OptQuantile(rs, quantiles.vec[n]), NA_REAL)]
    [] OTHER -> <<>>

\* lines 311-343: one pass of the inner loop over the statistics k.., the next
\* column being i (0-based); f is the state of row j so far
RECURSIVE FillRow(_, _, _, _, _, _)
FillRow(rs, stats, quantiles, k, i, f) ==
  IF k > Len(stats) THEN f
  ELSE IF ~KnownStat(stats[k]) THEN [f EXCEPT !.err = "unknown_stat"]
  ELSE
    LET cells == StatCells(rs, stats[k], quantiles)
        n == Len(cells)
        width == Len(f.row)
        inside == {c \in 1..n : i + c <= width}
        g == [f EXCEPT
                !.row = [col \in 1..width |->
                           IF col - i \in inside THEN cells[col - i] ELSE @[col]],
                !.writes = [col \in 1..width |->
                              IF col - i \in inside THEN @[col] + 1 ELSE @[col]],
                !.oob = @ \/ (i + n > width)]
    IN  FillRow(rs, stats, quantiles, k + 1, i + n, g)

(***************************************************************************)
(* CPP_stats: the steps of the function body.                              *)
(***************************************************************************)
Raise(kind) ==
  /\ pc' = "error"
  /\ err' = kind

\* lines 196-198
CheckMaxCells ==
  /\ pc = "start"
  /\ IF InvalidMaxCells(call.max_cells_in_memory)
     THEN Raise("invalid_max_cells")
     ELSE pc' = "layers" /\ err' = err
  /\ UNCHANGED <<call, nweights, weighted, geom_parsed, grid, store_values,
                 stat_result_size, raster_stats, stat_results, writes, oob,
                 windows, log, j, xvars>>

\* lines 200-217
ReadLayers ==
  /\ pc = "layers"
  /\ IF call.has_weights
     THEN /\ nweights' = call.wlayers
          /\ IF LayersIncompatible(call.nlayers, call.wlayers)
             THEN Raise("incompatible_layers") /\ weighted' = weighted
             ELSE pc' = "geom" /\ err' = err /\ weighted' = TRUE
     ELSE pc' = "geom" /\ UNCHANGED <<err, nweights, weighted>>
  /\ UNCHANGED <<call, geom_parsed, grid, store_values, stat_result_size,
                 raster_stats, stat_results, writes, oob, windows, log, j, xvars>>

\* lines 219-224: read_wkb throws on a malformed geometry
ParseGeometry ==
  /\ pc = "geom"
  /\ IF call.wkb_ok
     THEN /\ pc' = "validate"
          /\ err' = err
          /\ geom_parsed' = TRUE
          /\ grid' = ReconciledGrid(call, weighted)
     ELSE Raise("geometry") /\ UNCHANGED <<geom_parsed, grid>>
  /\ UNCHANGED <<call, nweights, weighted, store_values, stat_result_size,
                 raster_stats, stat_results, writes, oob, windows, log, j, xvars>>

\* lines 226-252
ValidateRequest ==
  /\ pc = "validate"
  /\ LET v == ValidateStats(call.stats, call.quantiles,
                            Disaggregated(grid, ValueGrid(call)), 1, FALSE, 0)
     IN  IF v.err # "none"
         THEN Raise(v.err) /\ UNCHANGED <<store_values, stat_result_size>>
         ELSE /\ pc' = "create"
              /\ err' = err
              /\ store_values' = v.store_values
              /\ stat_result_size' = v.size
  /\ UNCHANGED <<call, nweights, weighted, geom_parsed, grid, raster_stats,
                 stat_results, writes, oob, windows, log, j, xvars>>

\* lines 254-267: the accumulators, the uninitialised matrix, and the windows
CreateAccumulators ==
  /\ pc = "create"
  /\ LET nresults == NResults(call.nlayers, nweights)
     IN  /\ raster_stats' = [r \in 1..nresults |-> NewStats(store_values)]
         /\ stat_results' = [r \in 1..nresults |-> [c \in 1..stat_result_size |-> Uninit]]
         /\ writes' = [r \in 1..nresults |-> [c \in 1..stat_result_size |-> 0]]
  /\ windows' = WindowsOf(grid, call.geom, call.max_cells_in_memory, call.closed_cells)
  /\ pc' = IF windows' = <<>> THEN "fill" ELSE "windows"
  /\ UNCHANGED <<call, err, nweights, weighted, geom_parsed, grid, store_values,
                 stat_result_size, oob, log, j, xvars>>

\* the coverage (in CovDen-ths) of all cells of a coverage grid
RECURSIVE TotalCoverage(_, _, _)
TotalCoverage(geom, cg, n) ==
  IF n > GridSize(cg) THEN 0
  ELSE CoverageFraction(geom, cg, (n - 1) % NCols(cg), (n - 1) \div NCols(cg))
       + TotalCoverage(geom, cg, n + 1)

\* lines 267-305: one iteration of the range-for
ProcessWindow ==
  /\ pc = "windows"
  /\ windows # <<>>
  /\ LET subgrid == Head(windows)
         cov_grid == CoverageGrid(subgrid, call.geom, call.closed_cells)
         fed == IF ShouldProcess(cov_grid)
                THEN RowsFed(weighted, call.nlayers, nweights)
                ELSE {}
     IN  /\ raster_stats' =
              [r \in 1..Len(raster_stats) |->
                 IF (r - 1) \in fed
                 THEN ProcessRow(raster_stats[r], r - 1, call, cov_grid, weighted, nweights)
                 ELSE raster_stats[r]]
         /\ log' = Append(log,
                     [subgrid |-> subgrid,
                      cov_empty |-> GridEmpty(cov_grid),
                      cov |-> TotalCoverage(call.geom, cov_grid, 1),
                      calls |-> [r \in 1..Len(raster_stats) |->
                                   IF (r - 1) \in fed THEN 1 ELSE 0]])
  /\ windows' = Tail(windows)
  /\ pc' = IF windows' = <<>> THEN "fill" ELSE "windows"
  /\ UNCHANGED <<call, err, nweights, weighted, geom_parsed, grid, store_values,
                 stat_result_size, stat_results, writes, oob, j, xvars>>

\* lines 308-346: one iteration of the loop over the rows, and the return
FillResults ==
  /\ pc = "fill"
  /\ j < Len(raster_stats)
  /\ LET f == FillRow(raster_stats[j + 1], call.stats, call.quantiles, 1, 0,
                      [row |-> stat_results[j + 1], writes |-> writes[j + 1],
                       oob |-> FALSE, err |-> "none"])
     IN  /\ stat_results' = [stat_results EXCEPT ![j + 1] = f.row]
         /\ writes' = [writes EXCEPT ![j + 1] = f.writes]
         /\ oob' = (oob \/ f.oob)
         /\ IF f.err # "none"
            THEN Raise(f.err) /\ j' = j
            ELSE /\ j' = j + 1
                 /\ err' = err
                 /\ pc' = IF j' = Len(raster_stats) THEN "done" ELSE "fill"
  /\ UNCHANGED <<call, nweights, weighted, geom_parsed, grid, store_values,
                 stat_result_size, raster_stats, windows, log, xvars>>

Next ==
  \/ CheckMaxCells
  \/ ReadLayers
  \/ ParseGeometry
  \/ ValidateRequest
  \/ CreateAccumulators
  \/ ProcessWindow
  \/ FillResults

(***************************************************************************)
(* The calls of CPP_stats that are explored.                               *)
(***************************************************************************)
SeqsUpTo(S, n) == UNION {[1..m -> S] : m \in 0..n}

StatNames == Catalogue \cup {"bogus"}
\* every single statistic, and every list of a few representative ones
StatLists ==
  {<<s>> : s \in StatNames}
    \cup SeqsUpTo({"count", "mean", "min", "median", "quantile", "bogus"}, MaxStats)

NoQuantiles == [null |-> TRUE, vec |-> <<>>]
QuantileLists ==
  {NoQuantiles} \cup {[null |-> FALSE, vec |-> q] : q \in SeqsUpTo({25, 75}, MaxQuantiles)}

\* rectangles that may reach past the right edge of the rasters
Rects ==
  {Box(x0, x1, y0, y1) : x0 \in 0..RasterW, x1 \in 1..(RasterW + 1),
                         y0 \in 0..(RasterH - 1), y1 \in 1..RasterH}
ProperRects == {b \in Rects : b.x0 < b.x1 /\ b.y0 < b.y1}
\* one rectangle, or two side by side with a gap between them
Geoms ==
  {<<a>> : a \in ProperRects}
    \cup {<<a, b>> : <<a, b>> \in
            {p \in ProperRects \X ProperRects :
               p[1].x1 < p[2].x0 /\ p[1].y0 = p[2].y0 /\ p[1].y1 = p[2].y1}}
\* inside the rasters, beyond their right edge, on their right edge, and in two
\* parts with windows between them that neither part reaches
SampleGeoms ==
  {<<Box(1, 3, 0, 2)>>,
   <<Box(RasterW + 1, RasterW + 2, 0, 1)>>,
   <<Box(RasterW, RasterW + 1, 0, 1)>>,
   <<Box(0, 1, 0, 1), Box(RasterW, RasterW + 1, 0, 1)>>}

\* has_weights, cell size of the values, cell size of the weights
ResConfigs ==
  {<<FALSE, <<1, 1>>, <<1, 1>>>>,
   <<TRUE, <<2, 2>>, <<2, 2>>>>,
   <<TRUE, <<2, 2>>, <<1, 2>>>>,
   <<TRUE, <<2, 2>>, <<2, 1>>>>,
   <<TRUE, <<1, 1>>, <<2, 2>>>>}
DataConfigs ==
  {<<FALSE, <<1, 1>>, <<1, 1>>>>,
   <<FALSE, <<2, 2>>, <<2, 2>>>>,
   <<TRUE, <<2, 2>>, <<1, 1>>>>,
   <<TRUE, <<1, 2>>, <<2, 1>>>>}

\* closed_cells: whether the grids of the library keep the cells that a box
\* without area touches
Call(max_cells, nl, hw, wl, stats, quantiles, vres, wres, geom, ok, vseed, wseed, closed) ==
  [max_cells_in_memory |-> max_cells, nlayers |-> nl, has_weights |-> hw,
   wlayers |-> wl, stats |-> stats, quantiles |-> quantiles, vres |-> vres,
   wres |-> wres, geom |-> geom, wkb_ok |-> ok, vseed |-> vseed, wseed |-> wseed,
   closed_cells |-> closed]

Calls ==
  \* the request: statistics, quantiles and the resolutions of the two rasters
  {Call(2, 1, r[1], 1, s, q, r[2], r[3], <<Box(1, 3, 0, 2)>>, TRUE, 0, 1, FALSE) :
     s \in StatLists, q \in QuantileLists, r \in ResConfigs}
  \* the request against geometries inside, outside, on the edge and in two parts
  \cup {Call(2, 1, FALSE, 1, s, [null |-> FALSE, vec |-> <<25, 75>>],
             <<1, 1>>, <<1, 1>>, g, TRUE, 0, 1, cl) :
          s \in StatLists, g \in SampleGeoms, cl \in BOOLEAN}
  \* the layers of the two rasters, max_cells_in_memory and the geometry encoding
  \cup {Call(k, nl, hw, IF hw THEN wl ELSE 1, <<"sum", "weighted_sum">>, NoQuantiles,
             <<1, 1>>, <<1, 1>>, g, ok, vs, ws, TRUE) :
          k \in 0..MaxCells, nl \in 1..MaxLayers, hw \in BOOLEAN, wl \in 1..MaxLayers,
          g \in SampleGeoms, ok \in BOOLEAN, vs \in 0..1, ws \in 0..1}
  \* the geometry, the window size and the resolutions
  \cup {Call(k, 1, r[1], 1, <<"weighted_mean", "variety">>, NoQuantiles,
             r[2], r[3], g, TRUE, 0, 1, cl) :
          k \in 1..MaxCells, r \in DataConfigs, g \in Geoms, cl \in BOOLEAN}

UnsetGrid == MakeGrid(0, 0, 0, 0, 1, 1)

StatsIdle ==
  /\ err = "none"
  /\ nweights = 0
  /\ weighted = FALSE
  /\ geom_parsed = FALSE
  /\ grid = UnsetGrid
  /\ store_values = FALSE
  /\ stat_result_size = 0
  /\ raster_stats = <<>>
  /\ stat_results = <<>>
  /\ writes = <<>>
  /\ oob = FALSE
  /\ windows = <<>>
  /\ log = <<>>
  /\ j = 0

ExtractIdle ==
  /\ xcall = [include_names |-> <<>>, src_names |-> <<>>, has_weights |-> FALSE,
              weights_names |-> <<>>, include_xy |-> FALSE,
              include_cell_number |-> FALSE]
  /\ xpc = "idle"
  /\ xi = 0
  /\ cols = <<>>

Init ==
  /\ call \in Calls
  /\ pc = "start"
  /\ StatsIdle
  /\ ExtractIdle

Spec == Init /\ [][Next]_vars

(***************************************************************************)
(* Properties of CPP_stats.                                                *)
(***************************************************************************)
HasUnknownStat == \E k \in 1..Len(call.stats) : call.stats[k] \notin Catalogue
HasCountOrSum == \E k \in 1..Len(call.stats) : call.stats[k] \in {"count", "sum"}
HasQuantile == \E k \in 1..Len(call.stats) : call.stats[k] = "quantile"
LayerCountOfWeights == IF call.has_weights THEN call.wlayers ELSE 0
ExpectedRows == Max(call.nlayers, LayerCountOfWeights)
PastValidation == pc \in {"create", "windows", "fill", "done"}
ProcessCalls == {<<k, r>> \in (1..Len(log)) \X (1..Len(raster_stats)) : log[k].calls[r] > 0}

\* C1: a request with a statistic name outside the catalogue is rejected before
\* any window is produced by subdivide and before any accumulator is processed.
C1_UnknownStatRejectedBeforeWindows ==
  HasUnknownStat => (windows = <<>> /\ log = <<>>)

\* the reconciled grid is finer than the value grid in x or in y
ReconciledFiner ==
  /\ call.has_weights
  /\ \/ CommonGrid(ValueGrid(call), WeightGrid(call)).dx < call.vres[1]
     \/ CommonGrid(ValueGrid(call), WeightGrid(call)).dy < call.vres[2]

\* C2: with weights and a reconciled grid finer than the value grid, a request
\* with 'count' or 'sum' never gets past validation (no window, no accumulator);
\* the disaggregation error is raised for no other request, so a request without
\* 'count' and 'sum', or without weights, is not rejected for that reason and,
\* when nothing else is wrong with it, is not rejected at all.
C2_DisaggregatedCountSumRejected ==
  /\ (ReconciledFiner /\ HasCountOrSum) =>
       (~PastValidation /\ windows = <<>> /\ log = <<>> /\ raster_stats = <<>>)
  /\ (err = "disaggregated") => (ReconciledFiner /\ HasCountOrSum)
  /\ (pc = "error" /\ ~HasCountOrSum) =>
       \/ call.max_cells_in_memory < 1
       \/ err = "incompatible_layers"
       \/ ~call.wkb_ok
       \/ HasUnknownStat
       \/ (HasQuantile /\ (call.quantiles.null \/ call.quantiles.vec = <<>>))

C2_Witness ==
  /\ err = "disaggregated"
  /\ call.vres = <<2, 2>>
  /\ call.wres = <<2, 1>>
  /\ call.stats = <<"mean", "count">>

\* C3: once the layer counts have been read, the call is rejected as having
\* incompatible layers exactly when weights are present and both counts exceed 1
\* and differ; at that point the geometry is not parsed and neither a window nor
\* an accumulator exists.
C3_LayerCountRejection ==
  /\ (pc \notin {"start", "layers"} /\ err # "invalid_max_cells") =>
       ((err = "incompatible_layers") <=>
          (call.has_weights /\ call.nlayers > 1 /\ call.wlayers > 1
             /\ call.nlayers # call.wlayers))
  /\ (err = "incompatible_layers") =>
       (~geom_parsed /\ windows = <<>> /\ log = <<>> /\ raster_stats = <<>>)

C3_Witness ==
  /\ err = "incompatible_layers"
  /\ call.nlayers = 2
  /\ call.wlayers = 3

\* the layers the claim pairs with row i (0-based): <<value layer, weight layer>>
PairedLayers(i) ==
  IF ~call.has_weights THEN <<i, -1>>
  ELSE IF call.nlayers = call.wlayers THEN <<i, i>>
  ELSE IF call.nlayers > call.wlayers THEN <<i, 0>>
  ELSE <<0, i>>

\* the accumulator of row i after the first k logged windows were fed the
\* layers vl and wl
RECURSIVE FedStats(_, _, _)
FedStats(vl, wl, k) ==
  IF k = 0 THEN NewStats(store_values)
  ELSE Process(FedStats(vl, wl, k - 1), call,
               CoverageGrid(log[k].subgrid, call.geom, call.closed_cells), vl, wl)

\* C4: there are max(nValueLayers, nWeightLayers) accumulators, and after every
\* window row i holds what feeding it value layer i with weight layer i (equal
\* counts), value layer i with weight layer 0 (more value layers), value layer 0
\* with weight layer i (more weight layers), or value layer i unweighted (no
\* weights) produces; so 3 value layers against 1 weight layer are fed as if the
\* weight layer had been copied 3 times and paired by index.
C4_LayerPairing ==
  pc \in {"windows", "fill", "done"} =>
    /\ Len(raster_stats) = ExpectedRows
    /\ \A r \in 1..Len(raster_stats) :
         raster_stats[r] = FedStats(PairedLayers(r - 1)[1], PairedLayers(r - 1)[2], Len(log))

C4_Witness ==
  /\ pc = "done"
  /\ call.has_weights
  /\ call.nlayers = 3
  /\ call.wlayers = 1
  /\ \A r \in 1..3 : raster_stats[r].count > 0
  /\ raster_stats[1].weighted_sum # raster_stats[2].weighted_sum

\* the grid cropped to the geometry, treated as one window
WholeWindow ==
  IF BoxIntersects(GeomBox(call.geom), GridExtent(grid))
  THEN Crop(grid, GeomBox(call.geom), call.closed_cells)
  ELSE MakeEmpty(grid)

\* the windows of max_cells_in_memory merged last to first
RECURSIVE MergedBackwards(_, _, _, _)
MergedBackwards(ws, vl, wl, k) ==
  IF k > Len(ws) THEN NewStats(store_values)
  ELSE Process(MergedBackwards(ws, vl, wl, k + 1), call,
               CoverageGrid(ws[k], call.geom, call.closed_cells), vl, wl)

\* C5: when the window loop has finished, every accumulator is in the state that
\* processing the whole cropped grid as a single window produces, whatever
\* max_cells_in_memory is, and in the state that merging the same windows in the
\* opposite order produces.
C5_WindowPartitionInvariance ==
  pc \in {"fill", "done"} =>
    \A r \in 1..Len(raster_stats) :
      /\ raster_stats[r] =
           Process(NewStats(store_values), call, WholeWindow,
                   PairedLayers(r - 1)[1], PairedLayers(r - 1)[2])
      /\ raster_stats[r] =
           MergedBackwards(WindowsOf(grid, call.geom, call.max_cells_in_memory, call.closed_cells),
                           PairedLayers(r - 1)[1], PairedLayers(r - 1)[2], 1)

C5_Witness ==
  /\ pc = "done"
  /\ Len(log) >= 3
  /\ Cardinality({k \in 1..Len(log) : log[k].cov > 0}) >= 2
  /\ call.vres = <<2, 2>>
  /\ raster_stats[1].count > CovDen

\* no cell of the cropped grid is covered: the bounding box of the geometry
\* misses the grid, or only touches it
NoCoveredCell == TotalCoverage(call.geom, WholeWindow, 1) = 0

\* the statistics whose getter returns an optional, stored with value_or(NA_REAL)
OptionalStats == {"min", "max", "median", "mode", "majority", "minority", "quantile"}

\* the cells the claim gives the columns of one statistic of a request without
\* a covered cell: 0 for count and variety, the sentinel for all the others
SentinelCells(stat) ==
  IF stat = "count" THEN <<Num("count", <<0>>)>>
  ELSE IF stat = "variety" THEN <<Num("variety", <<0>>)>>
  ELSE IF stat = "quantile" THEN [n \in 1..Len(call.quantiles.vec) |-> NA_REAL]
  ELSE <<NA_REAL>>

RECURSIVE SentinelRow(_)
SentinelRow(k) ==
  IF k > Len(call.stats) THEN <<>> ELSE SentinelCells(call.stats[k]) \o SentinelRow(k + 1)

IsNaN(cell) ==
  /\ ~cell.na
  /\ cell.fn \in {"mean", "weighted_mean", "variance", "stdev", "coefficient_of_variation"}
  /\ cell.args[Len(cell.args)] = 0

\* the cells an accumulator without cells leaves in the columns of one
\* statistic: the sentinel where the getter returns an optional, and the double
\* of the getter everywhere else: 0 for a sum, NaN for a quotient
StoredCells(stat) ==
  IF stat = "quantile" THEN [n \in 1..Len(call.quantiles.vec) |-> NA_REAL]
  ELSE IF stat \in OptionalStats THEN <<NA_REAL>>
  ELSE IF stat \in {"count", "variety", "sum", "weighted_sum"} THEN <<Num(stat, <<0>>)>>
  ELSE IF stat \in {"mean", "weighted_mean"} THEN <<Num(stat, <<0, 0>>)>>
  ELSE <<Num(stat, <<0, 0, 0>>)>>

RECURSIVE StoredRow(_)
StoredRow(k) ==
  IF k > Len(call.stats) THEN <<>> ELSE StoredCells(call.stats[k]) \o StoredRow(k + 1)

ClaimedWidth(stat) ==
  IF stat = "quantile" THEN Len(call.quantiles.vec) ELSE 1

RECURSIVE ClaimedOffset(_)
ClaimedOffset(k) ==
  IF k = 1 THEN 0 ELSE ClaimedOffset(k - 1) + ClaimedWidth(call.stats[k - 1])

\* the getter whose value the column of a statistic holds
GetterOf(stat) ==
  IF stat = "median" THEN "quantile" ELSE IF stat = "majority" THEN "mode" ELSE stat

\* C7: no cell of the matrix is ever written twice and no column index reaches
\* the allocated width; the returned matrix has one row per output row and one
\* column per non-quantile statistic plus one per quantile fraction of every
\* 'quantile' entry; every cell has been written exactly once; and the columns
\* follow the request order, the columns of a 'quantile' entry following the
\* order of the fractions.
C7_ResultMatrixLayout ==
  /\ ~oob
  /\ \A r \in 1..Len(writes) : \A c \in 1..Len(writes[r]) : writes[r][c] <= 1
  /\ pc = "done" =>
       /\ Len(stat_results) = ExpectedRows
       /\ \A r \in 1..Len(stat_results) :
            /\ Len(stat_results[r]) = ClaimedOffset(Len(call.stats) + 1)
            /\ \A c \in 1..Len(stat_results[r]) :
                 writes[r][c] = 1 /\ stat_results[r][c] # Uninit
            /\ \A k \in 1..Len(call.stats) :
                 \A n \in 1..ClaimedWidth(call.stats[k]) :
                   LET cell == stat_results[r][ClaimedOffset(k) + n]
                   IN  cell.na \/
                         /\ cell.fn = GetterOf(call.stats[k])
                         /\ call.stats[k] = "quantile" => cell.args[1] = call.quantiles.vec[n]
                         /\ call.stats[k] = "median" => cell.args[1] = 50

C7_Witness ==
  /\ pc = "done"
  /\ call.stats = <<"quantile", "median">>
  /\ call.quantiles.vec = <<75, 25>>
  /\ stat_results[1][1].fn = "quantile"
  /\ stat_results[1][1].args[1] = 75
  /\ stat_results[1][2].args[1] = 25
  /\ stat_results[1][3].args[1] = 50

\* the accumulators exist before the first window, statistics are read only
\* after the last one, and every accumulator holds the coverage of all the
\* process calls made on it since it was created
RECURSIVE CoverageFed(_, _)
CoverageFed(r, k) ==
  IF k = 0 THEN 0 ELSE CoverageFed(r, k - 1) + log[k].calls[r] * log[k].cov

LifecycleFrame ==
  /\ (windows # <<>> \/ log # <<>>) => Len(raster_stats) = ExpectedRows
  /\ (j > 0 \/ \E r \in 1..Len(writes) : \E c \in 1..Len(writes[r]) : writes[r][c] > 0)
       => windows = <<>>
  /\ \A r \in 1..Len(raster_stats) : raster_stats[r].count = CoverageFed(r, Len(log))

\* C10 as stated: every accumulator is processed exactly once for every window
\* that subdivide emits.
C10_OncePerWindow ==
  /\ LifecycleFrame
  /\ \A k \in 1..Len(log) : \A r \in 1..Len(raster_stats) : log[k].calls[r] = 1

\* C10 amended: every accumulator is processed exactly once for every window
\* whose coverage grid is not empty, and not at all for a window whose coverage
\* grid is empty.
C10_OncePerCoveredWindow ==
  /\ LifecycleFrame
  /\ \A k \in 1..Len(log) : \A r \in 1..Len(raster_stats) :
       log[k].calls[r] = IF log[k].cov_empty THEN 0 ELSE 1

C10_Witness ==
  /\ pc = "done"
  /\ Len(raster_stats) = 3
  /\ \E k \in 1..Len(log) : log[k].cov_empty
  /\ \E k \in 1..Len(log) : ~log[k].cov_empty /\ log[k].cov > 0

(***************************************************************************)
(* CPP_exact_extract: the table is built as a named list, one column at a  *)
(* time.  The content of a column is named by where it is read from.       *)
(***************************************************************************)
Column(name, content) == [name |-> name, content |-> content]
Content(kind, index) == [kind |-> kind, index |-> index]

\* Rcpp::List::containsElementNamed
ContainsElementNamed(list, name) == \E n \in 1..Len(list) : list[n].name = name

\* Rcpp::List::offset(name): the first element of that name
Offset(list, name) == CHOOSE n \in 1..Len(list) : list[n].name = name /\ \A m \in 1..(n - 1) : list[m].name # name

\* cols[name] = content: an element of that name is overwritten where it is,
\* a new name is pushed to the back
Assign(list, name, content) ==
  IF ContainsElementNamed(list, name)
  THEN [list EXCEPT ![Offset(list, name)] = Column(name, content)]
  ELSE Append(list, Column(name, content))

\* include_cols_list[name]: the first pass-through column of that name
IncludeContent(names, n) ==
  Content("include", CHOOSE m \in 1..n : names[m] = names[n] /\ \A l \in 1..(m - 1) : names[l] # names[n])

\* lines 103-111: the loop over the pass-through columns from the n-th on
RECURSIVE AssignIncluded(_, _, _)
AssignIncluded(list, names, n) ==
  IF n > Len(names) THEN list
  ELSE AssignIncluded(Assign(list, names[n], IncludeContent(names, n)), names, n + 1)

\* a variant of lines 151-158 that keeps the name of the weight layer
WeightColumnNameKept(list, layer_name) == layer_name

\* lines 151-158
WeightColumnName(list, layer_name) ==
  IF ContainsElementNamed(list, layer_name) THEN layer_name \o ".1" ELSE layer_name

\* line 164
CoordinatesFromWeights(c) == Len(c.weights_names) > 0 /\ c.weights_finer

\* lines 98-111
AddIncludedColumns ==
  /\ xpc = "include"
  /\ cols' = AssignIncluded(cols, xcall.include_names, 1)
  /\ xpc' = "values"
  /\ xi' = 0
  /\ UNCHANGED <<xcall, svars>>

\* lines 113-133: one iteration
AddValueColumn ==
  /\ xpc = "values"
  /\ xi < Len(xcall.src_names)
  /\ cols' = Assign(cols, xcall.src_names[xi + 1], Content("value", xi))
  /\ IF xi + 1 < Len(xcall.src_names)
     THEN xi' = xi + 1 /\ xpc' = xpc
     ELSE xi' = 0 /\ xpc' = IF Len(xcall.weights_names) > 0 THEN "weights" ELSE "coordinates"
  /\ UNCHANGED <<xcall, svars>>

\* lines 135-160: one iteration
AddWeightColumn ==
  /\ xpc = "weights"
  /\ xi < Len(xcall.weights_names)
  /\ cols' = Assign(cols, WeightColumnName(cols, xcall.weights_names[xi + 1]),
                    Content("weight", xi))
  /\ IF xi + 1 < Len(xcall.weights_names)
     THEN xi' = xi + 1 /\ xpc' = xpc
     ELSE xi' = 0 /\ xpc' = "coordinates"
  /\ UNCHANGED <<xcall, svars>>

\* lines 162-176
AddCoordinates ==
  /\ xpc = "coordinates"
  /\ LET source == IF CoordinatesFromWeights(xcall) THEN 1 ELSE 0
         with_xy == IF xcall.include_xy
                    THEN Assign(Assign(cols, "x", Content("x", source)),
                                "y", Content("y", source))
                    ELSE cols
     IN  cols' = IF xcall.include_cell_number
                 THEN Assign(with_xy, "cell", Content("cell", 0))
                 ELSE with_xy
  /\ xpc' = "coverage"
  /\ UNCHANGED <<xcall, xi, svars>>

\* lines 178-180
AddCoverageFraction ==
  /\ xpc = "coverage"
  /\ cols' = Assign(cols, "coverage_fraction", Content("coverage_fraction", 0))
  /\ xpc' = "done"
  /\ UNCHANGED <<xcall, xi, svars>>

NextExtract ==
  \/ AddIncludedColumns
  \/ AddValueColumn
  \/ AddWeightColumn
  \/ AddCoordinates
  \/ AddCoverageFraction

\* sequences without a repeated element: raster::stack() makes the names of
\* the layers of one raster unique
Injective(q) == \A m, n \in 1..Len(q) : m # n => q[m] # q[n]
IncludeNames == {"a", "x", "coverage_fraction"}
LayerNames == {"a", "a.1", "x"}

ExtractCalls ==
  {[include_names |-> inc, src_names |-> src, weights_names |-> wts,
    weights_finer |-> fine, include_xy |-> xy, include_cell_number |-> cell] :
     inc \in SeqsUpTo(IncludeNames, MaxInclude),
     src \in {q \in SeqsUpTo(LayerNames, MaxSrcNames) : Len(q) > 0 /\ Injective(q)},
     wts \in {q \in SeqsUpTo(LayerNames, MaxSrcNames) : Injective(q)},
     fine \in BOOLEAN, xy \in BOOLEAN, cell \in BOOLEAN}

InitExtract ==
  /\ xcall \in ExtractCalls
  /\ xpc = "include"
  /\ xi = 0
  /\ cols = <<>>
  /\ call = Call(1, 1, FALSE, 1, <<>>, NoQuantiles, <<1, 1>>, <<1, 1>>,
                 <<Box(0, 1, 0, 1)>>, TRUE, 0, 0, FALSE)
  /\ pc = "idle"
  /\ StatsIdle

SpecExtract == InitExtract /\ [][NextExtract]_vars

(***************************************************************************)
(* Properties of CPP_exact_extract.                                        *)
(***************************************************************************)
Repeat(kind, n) == [m \in 1..n |-> kind]

\* C8: the returned table holds, in this order, the pass-through columns, one
\* column per value layer, one column per weight layer, x and y if asked for,
\* the cell index if asked for, and the coverage fraction, which is the last
\* column whatever the names are.
C8_ColumnOrder ==
  xpc = "done" =>
    /\ [n \in 1..Len(cols) |-> cols[n].content.kind] =
         Repeat("include", Len(xcall.include_names))
           \o Repeat("value", Len(xcall.src_names))
           \o Repeat("weight", Len(xcall.weights_names))
           \o (IF xcall.include_xy THEN <<"x", "y">> ELSE <<>>)
           \o (IF xcall.include_cell_number THEN <<"cell">> ELSE <<>>)
           \o <<"coverage_fraction">>
    /\ cols[Len(cols)].name = "coverage_fraction"

\* C9: a weight layer whose name is already the name of a column is stored under
\* that name followed by ".1", and every column of another name than the one
\* stored, the column of the original name among them, is left as it was; a
\* weight layer whose name is new is appended under its own name.
C9_WeightColumnSuffix ==
  [][xpc = "weights" =>
       LET name == xcall.weights_names[xi + 1]
           stored == IF \E n \in 1..Len(cols) : cols[n].name = name
                     THEN name \o ".1" ELSE name
       IN  /\ \E n \in 1..Len(cols') : cols'[n] = Column(stored, Content("weight", xi))
           /\ \A n \in 1..Len(cols) : cols[n].name # stored => cols'[n] = cols[n]
           /\ (\A n \in 1..Len(cols) : cols[n].name # stored)
                => cols' = Append(cols, Column(stored, Content("weight", xi)))]_vars

C9_Witness ==
  /\ xpc = "done"
  /\ \E m, n \in 1..Len(cols) :
       /\ m < n
       /\ cols[m] = Column("a", Content("value", 0))
       /\ cols[n] = Column("a.1", Content("weight", 0))
====
